---- MODULE Spec2Model ----
(***************************************************************************)
(* Model of the gradient-boost decision-tree lookup machinery of jolt:     *)
(*   - GradientBoostInstruction (jolt-core/src/jolt/instruction/           *)
(*     gradient_boost.rs): to_indices, subtables, combine_lookups,          *)
(*     g_poly_degree, lookup_entry;                                         *)
(*   - GradientBoostSubtable (jolt-core/src/jolt/subtable/                  *)
(*     gradient_boost.rs): materialize, evaluate_mle;                       *)
(*   - GBDTInstruction (jolt-core/src/jolt/instruction/gbdt.rs): the        *)
(*     virtual instruction sequence;                                        *)
(*   - predict_feature (examples/gradient-boost/guest/src/lib.rs).          *)
(* A small Vec is a sequence read with At(v, i) (0-based, as the source     *)
(* indexes it); a materialized table is a function on 0..M-1.              *)
(***************************************************************************)
EXTENDS Integers, Sequences, FiniteSets, TLC

VARIABLES
    pc,        \* position of the run: which operation has acted last
    x,         \* first operand  (self.0 / rs1_val)
    y,         \* second operand (self.1 / rs2_val)
    C,         \* chunk count handed to the instruction
    log_M,     \* log2 of the subtable domain size M
    indices,   \* result of to_indices
    vals,      \* subtable values read at the bound slots
    combined,  \* result of combine_lookups (a field element)
    expected,  \* result of lookup_entry
    idx,       \* index into the materialized GradientBoostSubtable
    point,     \* MLE evaluation point (field elements, coordinate 0 first)
    entry,     \* materialize(M)[idx]
    mle,       \* result of evaluate_mle(point)
    trace_row,      \* the source trace row handed to virtual_trace
    virtual_trace,  \* the rows of the expansion
    registers,      \* register file the rows are replayed on
    step,           \* number of rows replayed so far
    falsified,      \* the rows carry an advice other than the code's
    rejected,       \* a check of the replay has failed
    subtable_id,    \* the SubtableId handed to the subtable enum
    variant,        \* the variant the enum returned for it
    selector,       \* the variant as usize
    subtable_set    \* the SubtableIds converted so far

instrVars == <<x, y, C, indices, vals, combined, expected>>

subVars == <<idx, point, entry, mle>>

virtVars == <<trace_row, virtual_trace, registers, step, falsified, rejected>>

regVars == <<subtable_id, variant, selector, subtable_set>>

vars == <<pc, log_M, instrVars, subVars, virtVars, regVars>>

(***************************************************************************)
(* Bounds of the model.                                                    *)
(***************************************************************************)
MaxOperand == 255
MaxC == 4
MaxLogM == 16
MaxPerturbLogM == 10
MaxWideLogM == 18
MaxRegister == 2
MaxAddress == 1

(***************************************************************************)
(* Machine arithmetic.                                                     *)
(***************************************************************************)
Pow2(n) == 2 ^ n

\* a >> n and a << n on naturals
Shr(a, n) == a \div Pow2(n)

Shl(a, n) == a * Pow2(n)

RECURSIVE BitAnd(_, _)
BitAnd(a, b) ==
    IF a = 0 \/ b = 0 THEN 0
    ELSE (IF a % 2 = 1 /\ b % 2 = 1 THEN 1 ELSE 0) + 2 * BitAnd(a \div 2, b \div 2)

RECURSIVE BitOr(_, _)
BitOr(a, b) ==
    IF a = 0 THEN b
    ELSE IF b = 0 THEN a
    ELSE (IF a % 2 = 1 \/ b % 2 = 1 THEN 1 ELSE 0) + 2 * BitOr(a \div 2, b \div 2)

\* `v as u8`, `v as u16`
AsU8(v) == v % Pow2(8)

AsU16(v) == v % Pow2(16)

\* ark_std::log2: ceil(log2(n)), 0 for n <= 1
RECURSIVE Log2(_)
Log2(n) == IF n <= 1 THEN 0 ELSE 1 + Log2((n + 1) \div 2)

\* v[i] of a Vec, 0-based
At(v, i) == v[i + 1]

\* Option values: None is <<>>, Some(v) is <<v>>
None == <<>>

Some(v) == <<v>>

is_some(o) == o # None

unwrap(o) == o[1]

(***************************************************************************)
(* The field F.  The source instantiates JoltField with the BN254 scalar   *)
(* field; the model computes in a prime field small enough for products to *)
(* stay in range, and large enough that every table entry, leaf value and  *)
(* difference of leaf values keeps its own encoding.                       *)
(***************************************************************************)
FieldModulus == 46337

from_u64(n) == n % FieldModulus

FOne == from_u64(1)

FAdd(a, b) == (a + b) % FieldModulus

FSub(a, b) == (a - b) % FieldModulus

FMul(a, b) == (a * b) % FieldModulus

is_zero(a) == a = 0

(***************************************************************************)
(* utils::split_bits and the reusable less-than subtable (LtuSubtable).    *)
(***************************************************************************)
\* (high chunk, low chunk) of `item`, each `size` bits wide
split_bits(item, size) ==
    LET max_value == Shl(1, size) - 1
    IN  <<BitAnd(Shr(item, size), max_value), BitAnd(item, max_value)>>

Ltu_materialize(M) ==
    LET bits_per_operand == Log2(M) \div 2
    IN  [idx0 \in 0..(M - 1) |->
            LET lr == split_bits(idx0, bits_per_operand)
            IN  IF lr[1] < lr[2] THEN 1 ELSE 0]

(***************************************************************************)
(* GradientBoostInstruction (instruction/gradient_boost.rs).               *)
(***************************************************************************)
T1 == 50
T2 == 30
T3 == 70
V1 == 10
V2 == 20
V3 == 30
V4 == 40

\* the first split taken with <= in place of <
inference_lte(left, right) ==
    IF left <= T1
    THEN (IF right < T2 THEN V1 ELSE V2)
    ELSE (IF right < T3 THEN V3 ELSE V4)

inference(left, right) ==
    IF left < T1
    THEN (IF right < T2 THEN V1 ELSE V2)
    ELSE (IF right < T3 THEN V3 ELSE V4)

\* Vec::resize(new_len, value)
resize(v, new_len, value) ==
    [i \in 1..new_len |-> IF i <= Len(v) THEN v[i] ELSE value]

to_indices(a, b, c, logM) ==
    LET left  == AsU8(BitAnd(a, 255))
        right == AsU8(BitAnd(b, 255))
        left_lt_t1_idx  == BitOr(AsU16(left), AsU16(Shl(AsU16(T1), 8)))
        right_lt_t2_idx == BitOr(AsU16(right), AsU16(Shl(AsU16(T2), 8)))
        right_lt_t3_idx == BitOr(AsU16(right), AsU16(Shl(AsU16(T3), 8)))
    IN  resize(<<left_lt_t1_idx, right_lt_t2_idx, right_lt_t3_idx>>, c, 0)

\* the ordered list of (subtable, index slots it is bound to)
subtables(c, M) ==
    << [subtable |-> "LtuSubtable", slots |-> <<0>>],
       [subtable |-> "LtuSubtable", slots |-> <<0>>],
       [subtable |-> "LtuSubtable", slots |-> <<0>>] >>

lookup_entry(a, b) ==
    LET left  == AsU8(BitAnd(a, 255))
        right == AsU8(BitAnd(b, 255))
    IN  inference(left, right)

g_poly_degree(c) == 3

\* JoltInstruction::slice_values: one slice of vals per subtable
RECURSIVE slice_offset(_, _)
slice_offset(subs, k) ==
    IF k = 0 THEN 0 ELSE slice_offset(subs, k - 1) + Len(At(subs, k - 1).slots)

slice_values(v, c, M) ==
    LET subs == subtables(c, M)
    IN  [k \in 1..Len(subs) |->
            SubSeq(v, slice_offset(subs, k - 1) + 1,
                      slice_offset(subs, k - 1) + Len(subs[k].slots))]

\* the third term taken with right_lt_t2 in place of right_lt_t3
combine_lookups_t2_twice(v, c, M) ==
    LET vals_by_subtable == slice_values(v, c, M)
        left_lt_t1  == At(At(vals_by_subtable, 0), 0)
        right_lt_t2 == At(At(vals_by_subtable, 1), 0)
        right_lt_t3 == At(At(vals_by_subtable, 2), 0)
    IN  FAdd(FAdd(FAdd(
            FMul(FMul(left_lt_t1, right_lt_t2), from_u64(V1)),
            FMul(FMul(left_lt_t1, FSub(FOne, right_lt_t2)), from_u64(V2))),
            FMul(FMul(FSub(FOne, left_lt_t1), right_lt_t2), from_u64(V3))),
            FMul(FMul(FSub(FOne, left_lt_t1), FSub(FOne, right_lt_t3)), from_u64(V4)))

combine_lookups(v, c, M) ==
    LET vals_by_subtable == slice_values(v, c, M)
        left_lt_t1  == At(At(vals_by_subtable, 0), 0)
        right_lt_t2 == At(At(vals_by_subtable, 1), 0)
        right_lt_t3 == At(At(vals_by_subtable, 2), 0)
    IN  FAdd(FAdd(FAdd(
            FMul(FMul(left_lt_t1, right_lt_t2), from_u64(V1)),
            FMul(FMul(left_lt_t1, FSub(FOne, right_lt_t2)), from_u64(V2))),
            FMul(FMul(FSub(FOne, left_lt_t1), right_lt_t3), from_u64(V3))),
            FMul(FMul(FSub(FOne, left_lt_t1), FSub(FOne, right_lt_t3)), from_u64(V4)))

(***************************************************************************)
(* GradientBoostSubtable (subtable/gradient_boost.rs).                     *)
(***************************************************************************)
T1_subtable == 50
T2_subtable == 30
T3_subtable == 70
V1_subtable == 10
V2_subtable == 20
V3_subtable == 30
V4_subtable == 40

\* the first split taken with <= in place of <
inference_subtable_lte(left, right) ==
    IF left <= T1_subtable
    THEN (IF right < T2_subtable THEN V1_subtable ELSE V2_subtable)
    ELSE (IF right < T3_subtable THEN V3_subtable ELSE V4_subtable)

inference_subtable(left, right) ==
    IF left < T1_subtable
    THEN (IF right < T2_subtable THEN V1_subtable ELSE V2_subtable)
    ELSE (IF right < T3_subtable THEN V3_subtable ELSE V4_subtable)

\* the two sub-fields handed to inference in the other order
materialize_entry_swapped(idx0, bits_per_operand) ==
    LET lr == split_bits(idx0, bits_per_operand)
    IN  inference_subtable(AsU8(lr[2]), AsU8(lr[1]))

\* one turn of materialize's loop: the entry pushed for idx
materialize_entry(idx0, bits_per_operand) ==
    LET lr == split_bits(idx0, bits_per_operand)
    IN  inference_subtable(AsU8(lr[1]), AsU8(lr[2]))

\* the loop run over 0..=M
materialize_inclusive(M) ==
    LET bits_per_operand == Log2(M) \div 2
    IN  [idx0 \in 0..M |-> materialize_entry(idx0, bits_per_operand)]

materialize(M) ==
    LET bits_per_operand == Log2(M) \div 2
    IN  [idx0 \in 0..(M - 1) |-> materialize_entry(idx0, bits_per_operand)]

\* the loop run without .rev(): the first coordinate taken as the lowest bit
RECURSIVE mle_binary_index_forward(_, _, _, _)
mle_binary_index_forward(pt, i, bit_value, binary_index) ==
    IF i < 0 THEN binary_index
    ELSE mle_binary_index_forward(pt, i - 1, Shl(bit_value, 1),
             IF ~is_zero(At(pt, Len(pt) - 1 - i)) THEN BitOr(binary_index, bit_value)
             ELSE binary_index)

\* evaluate_mle's loop `for i in (0..point.len()).rev()`, from turn i on
RECURSIVE mle_binary_index(_, _, _, _)
mle_binary_index(pt, i, bit_value, binary_index) ==
    IF i < 0 THEN binary_index
    ELSE mle_binary_index(pt, i - 1, Shl(bit_value, 1),
             IF ~is_zero(At(pt, i)) THEN BitOr(binary_index, bit_value)
             ELSE binary_index)

evaluate_mle(pt) ==
    LET binary_index == mle_binary_index(pt, Len(pt) - 1, 1, 0)
        bits_per_operand == Len(pt) \div 2
        lr == split_bits(binary_index, bits_per_operand)
    IN  from_u64(inference_subtable(AsU8(lr[1]), AsU8(lr[2])))

\* utils::index_to_field_bitvector: the bits of value, most significant first
index_to_field_bitvector(value, bits) ==
    [j \in 1..bits |->
        IF BitAnd(Shr(value, bits - j), 1) = 1 THEN FOne ELSE from_u64(0)]

(***************************************************************************)
(* The registries (vm/rv32i_vm.rs).  A struct type is its name with its    *)
(* field parameter and its const parameters; a SubtableId is the TypeId of *)
(* a struct type; a variant of the enum is named by its alias.             *)
(***************************************************************************)
WORD_SIZE == 32

MaxReferences == 2

Fr == "Fr"

struct_type(name, F, consts) == [name |-> name, F |-> F, consts |-> consts]

\* std::any::TypeId::of: one id per type
TypeId_of(type) == <<"TypeId", type>>

\* subtable_enum!(RV32ISubtables, ...): the variants in declaration order
RV32ISubtables(F) ==
    << [alias |-> "AND",            struct |-> struct_type("AndSubtable", F, <<>>)],
       [alias |-> "EQ_ABS",         struct |-> struct_type("EqAbsSubtable", F, <<>>)],
       [alias |-> "EQ",             struct |-> struct_type("EqSubtable", F, <<>>)],
       [alias |-> "LEFT_MSB",       struct |-> struct_type("LeftMSBSubtable", F, <<>>)],
       [alias |-> "RIGHT_MSB",      struct |-> struct_type("RightMSBSubtable", F, <<>>)],
       [alias |-> "IDENTITY",       struct |-> struct_type("IdentitySubtable", F, <<>>)],
       [alias |-> "LT_ABS",         struct |-> struct_type("LtAbsSubtable", F, <<>>)],
       [alias |-> "LTU",            struct |-> struct_type("LtuSubtable", F, <<>>)],
       [alias |-> "OR",             struct |-> struct_type("OrSubtable", F, <<>>)],
       [alias |-> "SIGN_EXTEND_16", struct |-> struct_type("SignExtendSubtable", F, <<16>>)],
       [alias |-> "SLL0",           struct |-> struct_type("SllSubtable", F, <<0, WORD_SIZE>>)],
       [alias |-> "SLL1",           struct |-> struct_type("SllSubtable", F, <<1, WORD_SIZE>>)],
       [alias |-> "SLL2",           struct |-> struct_type("SllSubtable", F, <<2, WORD_SIZE>>)],
       [alias |-> "SLL3",           struct |-> struct_type("SllSubtable", F, <<3, WORD_SIZE>>)],
       [alias |-> "SRA_SIGN",       struct |-> struct_type("SraSignSubtable", F, <<WORD_SIZE>>)],
       [alias |-> "SRL0",           struct |-> struct_type("SrlSubtable", F, <<0, WORD_SIZE>>)],
       [alias |-> "SRL1",           struct |-> struct_type("SrlSubtable", F, <<1, WORD_SIZE>>)],
       [alias |-> "SRL2",           struct |-> struct_type("SrlSubtable", F, <<2, WORD_SIZE>>)],
       [alias |-> "SRL3",           struct |-> struct_type("SrlSubtable", F, <<3, WORD_SIZE>>)],
       [alias |-> "TRUNCATE",       struct |-> struct_type("TruncateOverflowSubtable", F, <<WORD_SIZE>>)],
       [alias |-> "XOR",            struct |-> struct_type("XorSubtable", F, <<>>)],
       [alias |-> "LEFT_IS_ZERO",   struct |-> struct_type("LeftIsZeroSubtable", F, <<>>)],
       [alias |-> "RIGHT_IS_ZERO",  struct |-> struct_type("RightIsZeroSubtable", F, <<>>)],
       [alias |-> "DIV_BY_ZERO",    struct |-> struct_type("DivByZeroSubtable", F, <<>>)],
       [alias |-> "LSB",            struct |-> struct_type("LowBitSubtable", F, <<0>>)],
       [alias |-> "SECOND_LEAST_SIGNIFICANT_BIT",
                                    struct |-> struct_type("LowBitSubtable", F, <<1>>)] >>

\* EnumCount::COUNT
COUNT(enum) == Len(enum)

\* struct types that subtable_enum!(RV32ISubtables, ...) does not list
UnregisteredStructs(F) ==
    { struct_type("GradientBoostSubtable", F, <<>>),
      struct_type("SignExtendSubtable", F, <<8>>),
      struct_type("SllSubtable", F, <<4, WORD_SIZE>>),
      struct_type("LowBitSubtable", F, <<2>>) }

\* the ids LassoSubtable::subtable_id can return
SubtableIds ==
    {TypeId_of(RV32ISubtables(Fr)[k].struct) : k \in 1..COUNT(RV32ISubtables(Fr))}
        \cup {TypeId_of(t) : t \in UnregisteredStructs(Fr)}

\* $enum_name::from(<$struct>::new()): the variant that holds the struct
enum_from_struct(enum, struct) ==
    enum[CHOOSE k \in 1..Len(enum) : enum[k].struct = struct].alias

\* an id no comparison of the chain takes is given the first variant
RECURSIVE from_subtable_id_or_first(_, _, _)
from_subtable_id_or_first(enum, id, k) ==
    IF k > Len(enum) THEN Some(enum[1].alias)
    ELSE IF id = TypeId_of(enum[k].struct)
         THEN Some(enum_from_struct(enum, enum[k].struct))
         ELSE from_subtable_id_or_first(enum, id, k + 1)

\* From<SubtableId>: the if-else chain from the k-th struct on; None is the panic
RECURSIVE from_subtable_id(_, _, _)
from_subtable_id(enum, id, k) ==
    IF k > Len(enum) THEN None
    ELSE IF id = TypeId_of(enum[k].struct)
         THEN Some(enum_from_struct(enum, enum[k].struct))
         ELSE from_subtable_id(enum, id, k + 1)

\* the discriminants counted from 1
RECURSIVE discriminant_from_one(_, _)
discriminant_from_one(enum, k) ==
    IF k = 1 THEN 1 ELSE discriminant_from_one(enum, k - 1) + 1

\* implicit discriminant of the k-th declared variant: 0 for the first,
\* one more than the previous variant's after it
RECURSIVE discriminant(_, _)
discriminant(enum, k) ==
    IF k = 1 THEN 0 ELSE discriminant(enum, k - 1) + 1

\* From<$enum_name<F>> for usize: the tag byte of the #[repr(u8)] value
usize_from(enum, alias) ==
    LET k == CHOOSE j \in 1..Len(enum) : enum[j].alias = alias
        byte == AsU8(discriminant(enum, k))
    IN  byte

RegistryIdle ==
    /\ subtable_id = None
    /\ variant = None
    /\ selector = None
    /\ subtable_set = {}

(***************************************************************************)
(* The instruction pipeline, as jolt_instruction_test drives it in         *)
(* gradient_boost_e2e: to_indices, then one read of each listed subtable   *)
(* at each slot it is bound to, then combine_lookups.                      *)
(***************************************************************************)
C_e2e == 3

M_e2e == Shl(1, 16)

BoundaryOperands ==
    {0, T2 - 1, T2, T1 - 1, T1, T3 - 1, T3, Pow2(8) - 1, Pow2(8), Pow2(8) + T1}

materialize_of(name, M) ==
    CASE name = "LtuSubtable" -> Ltu_materialize(M)

\* the values pushed for subtables k, k+1, ... of `subs`, in order
RECURSIVE read_from(_, _, _, _)
read_from(subs, k, idxs, M) ==
    IF k > Len(subs) THEN <<>>
    ELSE LET table == materialize_of(subs[k].subtable, M)
             slots == subs[k].slots
         IN  [i \in 1..Len(slots) |-> from_u64(table[At(idxs, slots[i])])]
                 \o read_from(subs, k + 1, idxs, M)

\* every read stays inside the index list and inside the table
reads_in_range(subs, idxs, M) ==
    \A k \in 1..Len(subs) : \A i \in 1..Len(subs[k].slots) :
        /\ subs[k].slots[i] < Len(idxs)
        /\ At(idxs, subs[k].slots[i]) < M

VirtualIdle ==
    /\ trace_row = <<>>
    /\ virtual_trace = <<>>
    /\ registers = <<>>
    /\ step = 0
    /\ falsified = FALSE
    /\ rejected = FALSE

SubtableIdle ==
    /\ idx = 0
    /\ point = <<>>
    /\ entry = 0
    /\ mle = 0

InitInstruction ==
    /\ pc = "new"
    /\ \/ /\ x \in 0..MaxOperand
          /\ y \in 0..MaxOperand
          /\ C = C_e2e
          /\ log_M = Log2(M_e2e)
       \/ /\ x \in BoundaryOperands
          /\ y \in BoundaryOperands
          /\ C \in 0..MaxC
          /\ log_M \in 0..MaxLogM
    /\ indices = <<>>
    /\ vals = <<>>
    /\ combined = 0
    /\ expected = 0
    /\ SubtableIdle
    /\ VirtualIdle
    /\ RegistryIdle

ToIndices ==
    /\ pc = "new"
    /\ indices' = to_indices(x, y, C, log_M)
    /\ pc' = "indexed"
    /\ UNCHANGED <<x, y, C, log_M, vals, combined, expected, subVars, virtVars, regVars>>

ReadSubtables ==
    /\ pc = "indexed"
    /\ LET subs == subtables(C, Pow2(log_M))
       IN  IF reads_in_range(subs, indices, Pow2(log_M))
           THEN /\ vals' = read_from(subs, 1, indices, Pow2(log_M))
                /\ pc' = "read"
           ELSE /\ vals' = vals
                /\ pc' = "panicked"
    /\ UNCHANGED <<x, y, C, log_M, indices, combined, expected, subVars, virtVars, regVars>>

CombineLookups ==
    /\ pc \in {"read", "values"}
    /\ combined' = combine_lookups(vals, C, Pow2(log_M))
    /\ pc' = "combined"
    /\ UNCHANGED <<x, y, C, log_M, indices, vals, expected, subVars, virtVars, regVars>>

\* the oracle the combined value is compared with
LookupEntry ==
    /\ pc = "combined"
    /\ expected' = lookup_entry(x, y)
    /\ pc' = "checked"
    /\ UNCHANGED <<x, y, C, log_M, indices, vals, combined, subVars, virtVars, regVars>>

NextInstruction == ToIndices \/ ReadSubtables \/ CombineLookups \/ LookupEntry

Spec == InitInstruction /\ [][NextInstruction]_vars

(***************************************************************************)
(* C1: decomposition soundness.  For every operand pair (x, y) in          *)
(* [0, 256)^2 with C = 3 and M = 2^16, the value combine_lookups returns   *)
(* on the subtable values read at to_indices is the field encoding of      *)
(* lookup_entry().                                                         *)
(***************************************************************************)
C1_DecompositionSound ==
    (pc = "combined" /\ C = C_e2e /\ log_M = 16 /\ x < 256 /\ y < 256)
        => combined = from_u64(lookup_entry(x, y))

(***************************************************************************)
(* The subtable, as the materialize/MLE parity test drives it: an index of *)
(* the table and its binary point, materialize, then evaluate_mle.  The    *)
(* prover's sumcheck also evaluates at points that are not boolean: one    *)
(* coordinate of the point may be replaced by another field element.       *)
(***************************************************************************)
NonBooleans == {from_u64(2), FSub(from_u64(0), FOne)}

InstructionIdle ==
    /\ x = 0
    /\ y = 0
    /\ C = 0
    /\ indices = <<>>
    /\ vals = <<>>
    /\ combined = 0
    /\ expected = 0

\* indices of a table past 2^MaxLogM: the sub-fields around the thresholds
\* and around the width of a byte
WideIndices(logM) ==
    LET bits_per_operand == logM \div 2
        fields == {v \in BoundaryOperands : v < Pow2(bits_per_operand)}
    IN  {Shl(left, bits_per_operand) + right : left \in fields, right \in fields}

InitSubtable ==
    /\ pc = "table"
    /\ \/ /\ log_M \in 0..MaxLogM
          /\ idx \in 0..(Pow2(log_M) - 1)
       \/ /\ log_M \in (MaxLogM + 1)..MaxWideLogM
          /\ idx \in WideIndices(log_M)
    /\ point = index_to_field_bitvector(idx, log_M)
    /\ entry = 0
    /\ mle = 0
    /\ InstructionIdle
    /\ VirtualIdle
    /\ RegistryIdle

Materialize ==
    /\ pc = "table"
    /\ entry' = materialize(Pow2(log_M))[idx]
    /\ pc' = "materialized"
    /\ UNCHANGED <<log_M, idx, point, mle, instrVars, virtVars, regVars>>

PerturbPoint ==
    /\ pc = "materialized"
    /\ log_M <= MaxPerturbLogM
    /\ \E j \in 1..Len(point), c \in NonBooleans :
           point' = [point EXCEPT ![j] = c]
    /\ pc' = "perturbed"
    /\ UNCHANGED <<log_M, idx, entry, mle, instrVars, virtVars, regVars>>

EvaluateMle ==
    /\ pc \in {"materialized", "perturbed"}
    /\ mle' = evaluate_mle(point)
    /\ pc' = IF pc = "materialized" THEN "evaluated" ELSE "evaluated_off_cube"
    /\ UNCHANGED <<log_M, idx, point, entry, instrVars, virtVars, regVars>>

NextSubtable == Materialize \/ PerturbPoint \/ EvaluateMle

SpecSubtable == InitSubtable /\ [][NextSubtable]_vars

(***************************************************************************)
(* C2: parity.  For every power-of-two M up to 2^16 and every index i in   *)
(* [0, M), evaluate_mle at the binary point of i (most significant bit as  *)
(* coordinate 0) is the field encoding of materialize(M)[i].               *)
(***************************************************************************)
C2_Parity ==
    (pc = "evaluated" /\ log_M <= 16) => mle = from_u64(entry)

C2_Witness ==
    /\ pc = "evaluated"
    /\ log_M = 16
    /\ idx = 12800 + 70
    /\ point = index_to_field_bitvector(idx, 16)
    /\ mle = from_u64(V4_subtable)

(***************************************************************************)
(* The multilinear extension of a table at the point r:                    *)
(*   sum over i of table[i] * prod over j of (r_j if bit j of i else       *)
(*   1 - r_j), coordinate 0 being the most significant bit of i.           *)
(* The sum is taken coordinate by coordinate (the indices starting with    *)
(* the bits `prefix`); the half whose weight is zero is left out.          *)
(***************************************************************************)
RECURSIVE multilinear_extension(_, _, _, _)
multilinear_extension(table, r, j, prefix) ==
    IF j > Len(r) THEN from_u64(table[prefix])
    ELSE LET zero_half ==
                 IF r[j] = FOne THEN 0
                 ELSE FMul(FSub(FOne, r[j]),
                           multilinear_extension(table, r, j + 1, 2 * prefix))
             one_half ==
                 IF is_zero(r[j]) THEN 0
                 ELSE FMul(r[j],
                           multilinear_extension(table, r, j + 1, 2 * prefix + 1))
         IN  FAdd(zero_half, one_half)

(***************************************************************************)
(* C7: evaluate_mle is the multilinear extension of the materialized table *)
(* at every point of length log2(M), boolean or not.                       *)
(***************************************************************************)
C7_IsMultilinearExtension ==
    pc \in {"evaluated", "evaluated_off_cube"}
        => mle = multilinear_extension(materialize(Pow2(log_M)), point, 1, 0)

(***************************************************************************)
(* GBDTInstruction (instruction/gbdt.rs): the virtual instruction          *)
(* sequence.                                                               *)
(***************************************************************************)
T1_gbdt == 50
T2_gbdt == 30
T3_gbdt == 70
V1_gbdt == 10
V2_gbdt == 20
V3_gbdt == 30
V4_gbdt == 40

SEQUENCE_LENGTH == 2

RISCV_REGISTER_COUNT == 32

REGISTER_COUNT == 64

\* common::constants::virtual_register_index
virtual_register_index(i) == RISCV_REGISTER_COUNT + i

inference_gbdt(left, right) ==
    IF left < T1_gbdt
    THEN (IF right < T2_gbdt THEN V1_gbdt ELSE V2_gbdt)
    ELSE (IF right < T3_gbdt THEN V3_gbdt ELSE V4_gbdt)

sequence_output(a, b) == inference_gbdt(a, b)

\* ADVICEInstruction(v).lookup_entry() and ASSERTLTEInstruction(a, b).lookup_entry()
advice_lookup_entry(v) == v

assert_lte_lookup_entry(a, b) == IF a <= b THEN 1 ELSE 0

bool_as_u64(b) == IF b THEN 1 ELSE 0

\* the counter taken without the rows pushed so far
sequence_remaining_fixed(len) == Some(SEQUENCE_LENGTH - 1)

\* Some(Self::SEQUENCE_LENGTH - virtual_trace.len() - 1)
sequence_remaining(len) == Some(SEQUENCE_LENGTH - len - 1)

\* the advice written to the source row's rs1 in place of the scratch register
advice_row_to_rs1(row, advice, i, len) ==
    [ instruction |->
        [ address |-> row.instruction.address,
          opcode  |-> "VIRTUAL_ADVICE",
          rs1     |-> None,
          rs2     |-> None,
          rd      |-> row.instruction.rs1,
          imm     |-> None,
          virtual_sequence_remaining |-> sequence_remaining(len) ],
      register_state |->
        [ rs1_val |-> None, rs2_val |-> None, rd_post_val |-> Some(i) ],
      memory_state |-> None,
      advice_value |-> Some(advice),
      precompile_input |-> None,
      precompile_output_address |-> None ]

\* the row pushed first, the trace so far holding `len` rows
advice_row(row, advice, i, len) ==
    [ instruction |->
        [ address |-> row.instruction.address,
          opcode  |-> "VIRTUAL_ADVICE",
          rs1     |-> None,
          rs2     |-> None,
          rd      |-> Some(virtual_register_index(0)),
          imm     |-> None,
          virtual_sequence_remaining |-> sequence_remaining(len) ],
      register_state |->
        [ rs1_val |-> None, rs2_val |-> None, rd_post_val |-> Some(i) ],
      memory_state |-> None,
      advice_value |-> Some(advice),
      precompile_input |-> None,
      precompile_output_address |-> None ]

\* the move written back to the scratch register
move_row_to_scratch(row, i, len) ==
    [ instruction |->
        [ address |-> row.instruction.address,
          opcode  |-> "VIRTUAL_MOVE",
          rs1     |-> Some(virtual_register_index(0)),
          rs2     |-> None,
          rd      |-> Some(virtual_register_index(0)),
          imm     |-> None,
          virtual_sequence_remaining |-> sequence_remaining(len) ],
      register_state |->
        [ rs1_val |-> Some(i), rs2_val |-> None, rd_post_val |-> Some(i) ],
      memory_state |-> None,
      advice_value |-> None,
      precompile_input |-> None,
      precompile_output_address |-> None ]

\* the row pushed last
move_row(row, i, len) ==
    [ instruction |->
        [ address |-> row.instruction.address,
          opcode  |-> "VIRTUAL_MOVE",
          rs1     |-> Some(virtual_register_index(0)),
          rs2     |-> None,
          rd      |-> row.instruction.rd,
          imm     |-> None,
          virtual_sequence_remaining |-> sequence_remaining(len) ],
      register_state |->
        [ rs1_val |-> Some(i), rs2_val |-> None, rd_post_val |-> Some(i) ],
      memory_state |-> None,
      advice_value |-> None,
      precompile_input |-> None,
      precompile_output_address |-> None ]

\* the three assert_eq! of virtual_trace; a failing one panics
trace_asserts_hold(a, b) ==
    /\ assert_lte_lookup_entry(a, T1_gbdt) = bool_as_u64(~(a > T1_gbdt))
    /\ assert_lte_lookup_entry(b, T2_gbdt) = bool_as_u64(~(b > T2_gbdt))
    /\ assert_lte_lookup_entry(b, T3_gbdt) = bool_as_u64(~(b > T3_gbdt))

\* the move row left out
trace_rows_advice_only(row, inference_value) ==
    LET i == advice_lookup_entry(inference_value)
    IN  <<advice_row(row, inference_value, i, 0)>>

\* the move row pushed before the advice row
trace_rows_move_first(row, inference_value) ==
    LET i   == advice_lookup_entry(inference_value)
        vt1 == <<move_row(row, i, 0)>>
    IN  Append(vt1, advice_row(row, inference_value, i, Len(vt1)))

\* the rows virtual_trace pushes once `inference` is known
trace_rows(row, inference_value) ==
    LET i   == advice_lookup_entry(inference_value)
        vt1 == <<advice_row(row, inference_value, i, 0)>>
    IN  Append(vt1, move_row(row, i, Len(vt1)))

gbdt_virtual_trace(row) ==
    LET a == unwrap(row.register_state.rs1_val)
        b == unwrap(row.register_state.rs2_val)
    IN  trace_rows(row, inference_gbdt(a, b))

(***************************************************************************)
(* The guest reference (examples/gradient-boost/guest/src/lib.rs).         *)
(***************************************************************************)
FEATURE1_INDEX == 0
FEATURE2_INDEX == 1
T1_guest == 50
T2_guest == 30
T3_guest == 70
V1_guest == 10
V2_guest == 20
V3_guest == 30
V4_guest == 40

predict_feature(features) ==
    IF At(features, FEATURE1_INDEX) < T1_guest
    THEN (IF At(features, FEATURE2_INDEX) < T2_guest THEN V1_guest ELSE V2_guest)
    ELSE (IF At(features, FEATURE2_INDEX) < T3_guest THEN V3_guest ELSE V4_guest)

(***************************************************************************)
(* The virtual sequence, as jolt_virtual_sequence_test drives it: a source *)
(* row whose operands are the values of its source registers, the          *)
(* expansion, then the rows replayed in order on the register file.  The   *)
(* advice is witness data of the prover: before the replay the rows may be *)
(* rebuilt around an advice other than the one the code computed.          *)
(***************************************************************************)
AdviceValues == {0, V1_gbdt, V2_gbdt, V3_gbdt, V4_gbdt, V4_gbdt + 1}

source_row(addr, r_x, r_y, r_d, a, b) ==
    [ instruction |->
        [ address |-> addr,
          opcode  |-> "GBDT",
          rs1     |-> Some(r_x),
          rs2     |-> Some(r_y),
          rd      |-> Some(r_d),
          imm     |-> None,
          virtual_sequence_remaining |-> None ],
      register_state |->
        [ rs1_val |-> Some(a), rs2_val |-> Some(b),
          rd_post_val |-> Some(sequence_output(a, b)) ],
      memory_state |-> None,
      advice_value |-> None,
      precompile_input |-> None,
      precompile_output_address |-> None ]

\* register x0 reads 0, and one register holds one value
SourceRows ==
    { source_row(addr, r_x, r_y, r_d, a, b) :
        addr \in 0..MaxAddress,
        r_x \in 0..MaxRegister, r_y \in 0..MaxRegister, r_d \in 0..MaxRegister,
        a \in BoundaryOperands,
        b \in BoundaryOperands }

well_formed(row) ==
    LET r_x == unwrap(row.instruction.rs1)
        r_y == unwrap(row.instruction.rs2)
        a   == unwrap(row.register_state.rs1_val)
        b   == unwrap(row.register_state.rs2_val)
    IN  /\ r_x = 0 => a = 0
        /\ r_y = 0 => b = 0
        /\ r_x = r_y => a = b

initial_registers(row) ==
    [ r \in 0..(REGISTER_COUNT - 1) |->
        IF r = unwrap(row.instruction.rs2) THEN unwrap(row.register_state.rs2_val)
        ELSE IF r = unwrap(row.instruction.rs1) THEN unwrap(row.register_state.rs1_val)
        ELSE 0 ]

\* what the lookup of a replayed row returns
row_output(row) ==
    CASE row.instruction.opcode = "VIRTUAL_ADVICE" ->
             advice_lookup_entry(unwrap(row.advice_value))
      [] row.instruction.opcode = "VIRTUAL_MOVE" ->
             unwrap(row.register_state.rs1_val)
      [] row.instruction.opcode = "VIRTUAL_ASSERT_LTE" ->
             assert_lte_lookup_entry(unwrap(row.register_state.rs1_val),
                                     unwrap(row.register_state.rs2_val))

\* a row without destination register is an assertion: its lookup must be 1
is_assertion(row) == ~is_some(row.instruction.rd)

\* the checks of the replay on one row
row_accepted(row, regs) ==
    /\ is_some(row.register_state.rs1_val)
           => regs[unwrap(row.instruction.rs1)] = unwrap(row.register_state.rs1_val)
    /\ is_some(row.register_state.rs2_val)
           => regs[unwrap(row.instruction.rs2)] = unwrap(row.register_state.rs2_val)
    /\ IF is_assertion(row) THEN row_output(row) = 1
       ELSE row_output(row) = unwrap(row.register_state.rd_post_val)

InitVirtual ==
    /\ pc = "source"
    /\ trace_row \in SourceRows
    /\ well_formed(trace_row)
    /\ virtual_trace = <<>>
    /\ registers = initial_registers(trace_row)
    /\ step = 0
    /\ falsified = FALSE
    /\ rejected = FALSE
    /\ log_M = 0
    /\ InstructionIdle
    /\ SubtableIdle
    /\ RegistryIdle

VirtualTrace ==
    /\ pc = "source"
    /\ IF trace_asserts_hold(unwrap(trace_row.register_state.rs1_val),
                             unwrap(trace_row.register_state.rs2_val))
       THEN /\ virtual_trace' = gbdt_virtual_trace(trace_row)
            /\ pc' = "expanded"
       ELSE /\ virtual_trace' = virtual_trace
            /\ pc' = "panicked"
    /\ UNCHANGED <<trace_row, registers, step, falsified, rejected,
                   log_M, instrVars, subVars, regVars>>

FalsifyAdvice ==
    /\ pc = "expanded"
    /\ ~falsified
    /\ \E a \in AdviceValues :
          /\ a # unwrap(At(virtual_trace, 0).advice_value)
          /\ virtual_trace' = trace_rows(trace_row, a)
    /\ falsified' = TRUE
    /\ UNCHANGED <<pc, trace_row, registers, step, rejected,
                   log_M, instrVars, subVars, regVars>>

ReplayRow ==
    /\ pc \in {"expanded", "replaying"}
    /\ step < Len(virtual_trace)
    /\ LET row == At(virtual_trace, step)
       IN  /\ registers' =
                 IF is_assertion(row) THEN registers
                 ELSE [registers EXCEPT ![unwrap(row.instruction.rd)] =
                          unwrap(row.register_state.rd_post_val)]
           /\ rejected' = (rejected \/ ~row_accepted(row, registers))
    /\ step' = step + 1
    /\ pc' = IF step + 1 = Len(virtual_trace) THEN "replayed" ELSE "replaying"
    /\ UNCHANGED <<trace_row, virtual_trace, falsified, log_M, instrVars, subVars, regVars>>

NextVirtual == VirtualTrace \/ FalsifyAdvice \/ ReplayRow

SpecVirtual == InitVirtual /\ [][NextVirtual]_vars

\* the operands of the source row, and its destination register
rs1_val == unwrap(trace_row.register_state.rs1_val)

rs2_val == unwrap(trace_row.register_state.rs2_val)

dest == unwrap(trace_row.instruction.rd)

\* positions (0-based) of the rows of virtual_trace with the given opcode
rows_with(opcode) ==
    {k \in 0..(Len(virtual_trace) - 1) : At(virtual_trace, k).instruction.opcode = opcode}

(***************************************************************************)
(* C3: falsified advice is rejected.  When the rows carry an advice other  *)
(* than the decision-tree result, some assertion row between the advice    *)
(* row and the move row fails its check, and a replay that has run to the  *)
(* end has rejected the rows.                                              *)
(***************************************************************************)
C3_FalsifiedAdviceRejected ==
    (falsified /\ pc = "replayed") =>
        /\ \E a \in rows_with("VIRTUAL_ADVICE"), m \in rows_with("VIRTUAL_MOVE") :
             \E k \in (a + 1)..(m - 1) :
                /\ is_assertion(At(virtual_trace, k))
                /\ row_output(At(virtual_trace, k)) # 1
        /\ rejected

(***************************************************************************)
(* C4: virtual-sequence result.  Replaying the rows virtual_trace returns, *)
(* each row writing its rd_post_val to its rd, leaves the source row's     *)
(* destination register holding sequence_output(x, y).                     *)
(***************************************************************************)
C4_SequenceResult ==
    (pc = "replayed" /\ ~falsified)
        => registers[dest] = sequence_output(rs1_val, rs2_val)

C4_Witness ==
    /\ pc = "replayed"
    /\ ~falsified
    /\ rs1_val = T1_gbdt
    /\ rs2_val = T3_gbdt
    /\ dest = unwrap(trace_row.instruction.rs1)
    /\ registers[dest] = V4_gbdt

(***************************************************************************)
(* C5: the virtual and the non-virtual instruction agree.  For all operand *)
(* values of the machine word, GBDTInstruction::sequence_output(x, y) is   *)
(* GradientBoostInstruction(x, y).lookup_entry().                          *)
(***************************************************************************)
C5_VirtualAgreesWithLookup ==
    pc = "expanded" => sequence_output(rs1_val, rs2_val) = lookup_entry(rs1_val, rs2_val)

(***************************************************************************)
(* C8: remaining-steps counter.  The row at position k of the list         *)
(* virtual_trace returns has virtual_sequence_remaining =                  *)
(* SEQUENCE_LENGTH - k - 1; the counter is 0 at the last row and at no     *)
(* other row.                                                              *)
(***************************************************************************)
C8_RemainingCounter ==
    pc \in {"expanded", "replaying", "replayed"} =>
        \A k \in 0..(Len(virtual_trace) - 1) :
            LET remaining == At(virtual_trace, k).instruction.virtual_sequence_remaining
            IN  /\ remaining = Some(SEQUENCE_LENGTH - k - 1)
                /\ (unwrap(remaining) = 0) <=> (k = Len(virtual_trace) - 1)
                /\ k > 0 =>
                     unwrap(At(virtual_trace, k - 1).instruction.virtual_sequence_remaining)
                         = unwrap(remaining) + 1

C8_Witness ==
    /\ pc = "expanded"
    /\ ~falsified
    /\ Len(virtual_trace) = 2
    /\ At(virtual_trace, 0).instruction.virtual_sequence_remaining = Some(1)
    /\ At(virtual_trace, 1).instruction.virtual_sequence_remaining = Some(0)

(***************************************************************************)
(* combine_lookups as a polynomial in its subtable-value inputs.  A        *)
(* monomial is numbered 1 + sum of e_k * (MaxExponent + 1)^k, e_k the      *)
(* exponent of input k (0-based); a polynomial is the sequence of its      *)
(* coefficients in F, one per monomial; X(k) is the k-th input.            *)
(***************************************************************************)
NumInputs == slice_offset(subtables(C_e2e, M_e2e), Len(subtables(C_e2e, M_e2e)))

MaxExponent == 2

NumMonomials == (MaxExponent + 1) ^ NumInputs

exponent(i, k) == ((i - 1) \div ((MaxExponent + 1) ^ k)) % (MaxExponent + 1)

\* monomial j divides monomial i; the quotient is then monomial i - j + 1
divides(j, i) == \A k \in 0..(NumInputs - 1) : exponent(j, k) <= exponent(i, k)

RECURSIVE PConstFrom(_, _)
PConstFrom(c, i) ==
    IF i > NumMonomials THEN <<>>
    ELSE <<IF i = 1 THEN c ELSE 0>> \o PConstFrom(c, i + 1)

PConst(c) == PConstFrom(c, 1)

RECURSIVE XFrom(_, _)
XFrom(k, i) ==
    IF i > NumMonomials THEN <<>>
    ELSE <<IF i = 1 + (MaxExponent + 1) ^ k THEN FOne ELSE 0>> \o XFrom(k, i + 1)

X(k) == XFrom(k, 1)

RECURSIVE PAddFrom(_, _, _)
PAddFrom(p, q, i) ==
    IF i > NumMonomials THEN <<>>
    ELSE <<FAdd(p[i], q[i])>> \o PAddFrom(p, q, i + 1)

PAdd(p, q) == PAddFrom(p, q, 1)

RECURSIVE PSubFrom(_, _, _)
PSubFrom(p, q, i) ==
    IF i > NumMonomials THEN <<>>
    ELSE <<FSub(p[i], q[i])>> \o PSubFrom(p, q, i + 1)

PSub(p, q) == PSubFrom(p, q, 1)

\* the coefficient of monomial i in p * q: the products over the divisors j >= j0 of i
RECURSIVE convolve(_, _, _, _)
convolve(p, q, i, j0) ==
    IF j0 > i THEN 0
    ELSE FAdd(IF divides(j0, i) THEN FMul(p[j0], q[i - j0 + 1]) ELSE 0,
              convolve(p, q, i, j0 + 1))

RECURSIVE PMulFrom(_, _, _)
PMulFrom(p, q, i) ==
    IF i > NumMonomials THEN <<>>
    ELSE <<convolve(p, q, i, 1)>> \o PMulFrom(p, q, i + 1)

PMul(p, q) == PMulFrom(p, q, 1)

RECURSIVE exponent_sum(_, _)
exponent_sum(i, k) == IF k = 0 THEN 0 ELSE exponent(i, k - 1) + exponent_sum(i, k - 1)

\* the maximal total degree of a monomial with a non-zero coefficient
total_degree(p) ==
    LET degrees == {exponent_sum(i, NumInputs) : i \in {j \in 1..NumMonomials : p[j] # 0}}
    IN  IF degrees = {} THEN 0 ELSE CHOOSE d \in degrees : \A e \in degrees : e <= d

\* the value of p at the inputs v
RECURSIVE power(_, _)
power(a, n) == IF n = 0 THEN FOne ELSE FMul(a, power(a, n - 1))

RECURSIVE monomial_value(_, _, _)
monomial_value(i, v, k) ==
    IF k = 0 THEN FOne
    ELSE FMul(power(At(v, k - 1), exponent(i, k - 1)), monomial_value(i, v, k - 1))

RECURSIVE poly_value(_, _, _)
poly_value(p, v, i) ==
    IF i > NumMonomials THEN 0
    ELSE FAdd(FMul(p[i], monomial_value(i, v, NumInputs)), poly_value(p, v, i + 1))

\* combine_lookups, its inputs left symbolic
combine_lookups_poly ==
    LET subs == subtables(C_e2e, M_e2e)
        left_lt_t1  == X(slice_offset(subs, 0))
        right_lt_t2 == X(slice_offset(subs, 1))
        right_lt_t3 == X(slice_offset(subs, 2))
        one == PConst(FOne)
    IN  PAdd(PAdd(PAdd(
            PMul(PMul(left_lt_t1, right_lt_t2), PConst(from_u64(V1))),
            PMul(PMul(left_lt_t1, PSub(one, right_lt_t2)), PConst(from_u64(V2)))),
            PMul(PMul(PSub(one, left_lt_t1), right_lt_t3), PConst(from_u64(V3)))),
            PMul(PMul(PSub(one, left_lt_t1), PSub(one, right_lt_t3)), PConst(from_u64(V4))))

\* the polynomial takes the values combine_lookups computes, on the cube and off it
PolynomialIsCombineLookups ==
    \A v \in [1..NumInputs -> {0, FOne, from_u64(2)}] :
        poly_value(combine_lookups_poly, v, 1) = combine_lookups(v, C_e2e, M_e2e)

(***************************************************************************)
(* C6: degree exactness.  g_poly_degree(C) is the maximal total degree of  *)
(* the polynomial combine_lookups computes in its three subtable-value     *)
(* inputs, after expanding and cancelling terms.                           *)
(***************************************************************************)
C6_DegreeExact ==
    pc = "combined" =>
        /\ PolynomialIsCombineLookups
        /\ g_poly_degree(C) = total_degree(combine_lookups_poly)

(***************************************************************************)
(* C9: to_indices(C, log2M) returns exactly C indices, every one of them   *)
(* in [0, 2^log2M), for every operand pair, every C and every log2M.       *)
(***************************************************************************)
C9_IndicesInRange ==
    pc = "indexed" =>
        /\ Len(indices) = C
        /\ \A k \in 0..(Len(indices) - 1) : At(indices, k) \in 0..(Pow2(log_M) - 1)

(***************************************************************************)
(* C10: both decomposition strategies give the same ground truth.  For     *)
(* every (x, y) in [0, 256)^2 the entry materialize(2^16)[x*256 + y] of    *)
(* the single subtable is GradientBoostInstruction(x, y).lookup_entry(),   *)
(* and both are predict_feature([x, y]) of the guest.                      *)
(***************************************************************************)
C10_SameGroundTruth ==
    (pc = "materialized" /\ log_M = 16) =>
        \* the one pair (a, b) of [0, 256)^2 with idx = a * 256 + b
        LET a == idx \div 256
            b == idx % 256
        IN  /\ a \in 0..255 /\ b \in 0..255 /\ idx = a * 256 + b
            /\ entry = lookup_entry(a, b)
            /\ lookup_entry(a, b) = predict_feature(<<a, b>>)

C10_Witness ==
    /\ pc = "materialized"
    /\ log_M = 16
    /\ idx = T1 * 256 + (T3 - 1)
    /\ entry = V3
    /\ predict_feature(<<T1, T3 - 1>>) = V3

(***************************************************************************)
(* The subtable catalog, as test_instruction_set_subtables drives it: each *)
(* subtable an instruction lists has its id converted to a variant of      *)
(* RV32ISubtables (a panic ends the run) and recorded in subtable_set; the *)
(* proving code takes a variant's usize as its selector.                   *)
(***************************************************************************)
InitRegistry ==
    /\ pc = "catalog"
    /\ RegistryIdle
    /\ log_M = 0
    /\ InstructionIdle
    /\ SubtableIdle
    /\ VirtualIdle

CheckSubtable ==
    /\ pc \in {"catalog", "converted", "selected"}
    /\ Cardinality(subtable_set) < MaxReferences
    /\ \E id \in SubtableIds :
          LET v == from_subtable_id(RV32ISubtables(Fr), id, 1)
          IN  /\ subtable_id' = Some(id)
              /\ variant' = v
              /\ IF is_some(v)
                 THEN /\ subtable_set' = subtable_set \cup {id}
                      /\ pc' = "converted"
                 ELSE /\ subtable_set' = subtable_set
                      /\ pc' = "panicked"
    /\ UNCHANGED <<selector, log_M, instrVars, subVars, virtVars>>

IntoUsize ==
    /\ pc = "converted"
    /\ selector' = Some(usize_from(RV32ISubtables(Fr), unwrap(variant)))
    /\ pc' = "selected"
    /\ UNCHANGED <<subtable_id, variant, subtable_set, log_M, instrVars, subVars, virtVars>>

NextRegistry == CheckSubtable \/ IntoUsize

SpecRegistry == InitRegistry /\ [][NextRegistry]_vars

\* the id is the identity of a struct registered in the enum
is_registered(enum, id) == \E k \in 1..Len(enum) : TypeId_of(enum[k].struct) = id

\* 1-based position of the variant in the declaration
declared_at(enum, alias) == CHOOSE k \in 1..Len(enum) : enum[k].alias = alias

(***************************************************************************)
(* C12: converting a SubtableId that is not the identity of a struct       *)
(* registered in the subtable enum panics and returns no variant;          *)
(* converting a registered identity never panics and returns the variant   *)
(* of that struct.                                                         *)
(***************************************************************************)
C12_UnregisteredPanics ==
    is_some(subtable_id) =>
        IF is_registered(RV32ISubtables(Fr), unwrap(subtable_id))
        THEN /\ pc # "panicked"
             /\ is_some(variant)
             /\ TypeId_of(RV32ISubtables(Fr)[declared_at(RV32ISubtables(Fr),
                                                         unwrap(variant))].struct)
                    = unwrap(subtable_id)
        ELSE /\ pc = "panicked"
             /\ variant = None

C12_Witness ==
    /\ pc = "panicked"
    /\ subtable_id = Some(TypeId_of(struct_type("GradientBoostSubtable", Fr, <<>>)))
    /\ variant = None
    /\ Cardinality(subtable_set) = 1

(***************************************************************************)
(* C13: the discriminants of the catalog are dense and zero-based: the     *)
(* usize of the variants of RV32ISubtables is, in declaration order,       *)
(* 0, 1, ..., COUNT-1, and no two variants share a value.                  *)
(***************************************************************************)
C13_DenseDiscriminants ==
    pc = "selected" =>
        LET enum == RV32ISubtables(Fr)
        IN  /\ selector = Some(declared_at(enum, unwrap(variant)) - 1)
            /\ unwrap(selector) \in 0..(COUNT(enum) - 1)
            /\ \A k \in 1..COUNT(enum) : usize_from(enum, enum[k].alias) = k - 1
            /\ \A j, k \in 1..COUNT(enum) :
                   usize_from(enum, enum[j].alias) = usize_from(enum, enum[k].alias)
                       => j = k

C13_Witness ==
    /\ pc = "selected"
    /\ variant = Some("SECOND_LEAST_SIGNIFICANT_BIT")
    /\ selector = Some(COUNT(RV32ISubtables(Fr)) - 1)

(***************************************************************************)
(* C14: decision-tree ground truth with strict thresholds.  For every      *)
(* operand pair (x, y) of [0, 256)^2, lookup_entry() is 10 if x < 50 and   *)
(* y < 30, 20 if x < 50 and y >= 30, 30 if x >= 50 and y < 70, 40 if       *)
(* x >= 50 and y >= 70; the boundary pairs (49,29), (49,30), (50,69),      *)
(* (50,70) give 10, 20, 30, 40.                                            *)
(***************************************************************************)
C14_GroundTruth ==
    (pc = "checked" /\ x \in 0..255 /\ y \in 0..255) =>
        /\ (x < 50 /\ y < 30) => expected = 10
        /\ (x < 50 /\ y >= 30) => expected = 20
        /\ (x >= 50 /\ y < 70) => expected = 30
        /\ (x >= 50 /\ y >= 70) => expected = 40
        /\ (x = 49 /\ y = 29) => expected = 10
        /\ (x = 49 /\ y = 30) => expected = 20
        /\ (x = 50 /\ y = 69) => expected = 30
        /\ (x = 50 /\ y = 70) => expected = 40

C14_Witness ==
    /\ pc = "checked"
    /\ x = 50
    /\ y = 70
    /\ expected = 40

(***************************************************************************)
(* C15: the materialized table at M = 2^16.  For every idx in [0, 65536),  *)
(* materialize(65536)[idx] is the decision tree applied to left = idx div  *)
(* 256 (the high 8 bits) and right = idx mod 256; entries 0, 1, 31, 256,   *)
(* 12800, 25600, 25670, 25671 are 10, 10, 20, 10, 30, 30, 40, 40.          *)
(***************************************************************************)
C15_MaterializedTable ==
    (pc = "materialized" /\ log_M = 16) =>
        LET left  == idx \div 256
            right == idx % 256
        IN  /\ entry = IF left < 50
                       THEN (IF right < 30 THEN 10 ELSE 20)
                       ELSE (IF right < 70 THEN 30 ELSE 40)
            /\ idx \in {0, 1, 256} => entry = 10
            /\ idx = 31 => entry = 20
            /\ idx \in {12800, 25600} => entry = 30
            /\ idx \in {25670, 25671} => entry = 40

C15_Witness ==
    /\ pc = "materialized"
    /\ log_M = 16
    /\ idx = 25670
    /\ entry = 40

(***************************************************************************)
(* C17: materialize(M) returns exactly M entries for every power-of-two M, *)
(* and every entry is one of the four leaf values 10, 20, 30, 40.          *)
(***************************************************************************)
C17_TableLength ==
    pc = "materialized" =>
        \* the length of each table is counted once, at its first index
        /\ idx = 0 => Cardinality(DOMAIN materialize(Pow2(log_M))) = Pow2(log_M)
        /\ idx < Pow2(log_M)
        /\ entry \in {10, 20, 30, 40}

C17_Witness ==
    /\ pc = "materialized"
    /\ log_M = 3
    /\ idx = Pow2(3) - 1
    /\ entry = 10
    /\ Cardinality(DOMAIN materialize(Pow2(3))) = 8

(***************************************************************************)
(* C16: fixed step count and step kinds.  For every source row whose rs1   *)
(* and rs2 values are present, virtual_trace returns exactly               *)
(* SEQUENCE_LENGTH rows, the first with opcode VIRTUAL_ADVICE and the last *)
(* with opcode VIRTUAL_MOVE, whatever the operand values.                  *)
(***************************************************************************)
C16_FixedStepCount ==
    /\ pc # "panicked"
    /\ (pc = "expanded" /\ ~falsified) =>
          /\ Len(virtual_trace) = SEQUENCE_LENGTH
          /\ At(virtual_trace, 0).instruction.opcode = "VIRTUAL_ADVICE"
          /\ At(virtual_trace, Len(virtual_trace) - 1).instruction.opcode = "VIRTUAL_MOVE"

C16_Witness ==
    /\ pc = "expanded"
    /\ ~falsified
    /\ rs1_val = Pow2(8) + T1_gbdt
    /\ rs2_val = T3_gbdt - 1
    /\ Len(virtual_trace) = 2
    /\ At(virtual_trace, 1).instruction.opcode = "VIRTUAL_MOVE"

(***************************************************************************)
(* C18: the three looked-up values are the three less-than relations.  For *)
(* every (x, y) of [0, 256)^2 and M = 2^16, the less-than subtable (entry  *)
(* 1 iff the high 8 bits of the index are less than the low 8 bits) read   *)
(* at the indices to_indices puts in slots 0, 1 and 2 gives [x < T1],      *)
(* [y < T2] and [y < T3], with T1 = 50, T2 = 30, T3 = 70.                  *)
(***************************************************************************)
C18_LessThanRelations ==
    (pc = "indexed" /\ C = C_e2e /\ log_M = 16 /\ x < 256 /\ y < 256) =>
        LET ltu == Ltu_materialize(Pow2(log_M))
        IN  /\ ltu[At(indices, 0)] = bool_as_u64(x < 50)
            /\ ltu[At(indices, 1)] = bool_as_u64(y < 30)
            /\ ltu[At(indices, 2)] = bool_as_u64(y < 70)

(***************************************************************************)
(* C19: slot binding matches the packed indices.  In the list subtables    *)
(* returns, the k-th less-than subtable (k = 0, 1, 2) is bound to index    *)
(* slot k: the three values handed to combine_lookups are read at          *)
(* indices[0], indices[1], indices[2], and every comparison index of       *)
(* to_indices is consumed by some subtable.                                *)
(***************************************************************************)
C19_SlotBinding ==
    (pc = "read" /\ C = C_e2e /\ log_M = 16) =>
        LET subs == subtables(C, Pow2(log_M))
            ltu  == Ltu_materialize(Pow2(log_M))
        IN  /\ \A k \in 0..2 : At(subs, k).slots = <<k>>
            /\ \A k \in 0..2 : At(vals, k) = from_u64(ltu[At(indices, k)])
            /\ \A k \in 0..2 : \E j \in 0..(Len(subs) - 1) :
                   \E i \in 1..Len(At(subs, j).slots) : At(subs, j).slots[i] = k

(***************************************************************************)
(* combine_lookups on values given directly, as the proving code calls it: *)
(* three subtable values, boolean or not, for any chunk count.             *)
(***************************************************************************)
InitCombine ==
    /\ pc = "values"
    /\ vals \in [1..NumInputs -> {from_u64(0), FOne} \cup NonBooleans]
    /\ C \in 0..MaxC
    /\ log_M = Log2(M_e2e)
    /\ x = 0
    /\ y = 0
    /\ indices = <<>>
    /\ combined = 0
    /\ expected = 0
    /\ SubtableIdle
    /\ VirtualIdle
    /\ RegistryIdle

NextCombine == CombineLookups

SpecCombine == InitCombine /\ [][NextCombine]_vars

(***************************************************************************)
(* C20: combine_lookups reproduces the routing on boolean inputs.  For     *)
(* every (lt1, lt2, lt3) of {0,1}^3 it returns the field encoding of 10 if *)
(* lt1 = 1 and lt2 = 1, 20 if lt1 = 1 and lt2 = 0, 30 if lt1 = 0 and       *)
(* lt3 = 1, 40 if lt1 = 0 and lt3 = 0; the result does not depend on lt3   *)
(* when lt1 = 1 nor on lt2 when lt1 = 0.                                   *)
(***************************************************************************)
C20_RoutingOnBooleans ==
    (pc = "combined" /\ \A k \in 0..2 : At(vals, k) \in {from_u64(0), FOne}) =>
        LET lt1 == At(vals, 0)
            lt2 == At(vals, 1)
            lt3 == At(vals, 2)
            flip(b) == FSub(FOne, b)
        IN  /\ (lt1 = 1 /\ lt2 = 1) => combined = from_u64(10)
            /\ (lt1 = 1 /\ lt2 = 0) => combined = from_u64(20)
            /\ (lt1 = 0 /\ lt3 = 1) => combined = from_u64(30)
            /\ (lt1 = 0 /\ lt3 = 0) => combined = from_u64(40)
            /\ lt1 = 1 => combined = combine_lookups(<<lt1, lt2, flip(lt3)>>, C, Pow2(log_M))
            /\ lt1 = 0 => combined = combine_lookups(<<lt1, flip(lt2), lt3>>, C, Pow2(log_M))

C20_Witness ==
    /\ pc = "combined"
    /\ vals = <<from_u64(0), from_u64(0), FOne>>
    /\ C = C_e2e
    /\ combined = from_u64(30)

(***************************************************************************)
(* C21: advice is written before it is moved.  In the list virtual_trace   *)
(* returns the advice row comes before the move row and writes the         *)
(* decision-tree result of (x, y) (its rd_post_val, equal to its           *)
(* advice_value) to virtual register 0; the move row reads that register   *)
(* with rs1_val equal to the advice row's rd_post_val, writes that value   *)
(* unchanged to the source row's rd, and carries no advice_value.  In the  *)
(* replay the scratch register holds the result once the first row is      *)
(* done.                                                                   *)
(***************************************************************************)
C21_AdviceBeforeMove ==
    LET tree == IF rs1_val < 50
                THEN (IF rs2_val < 30 THEN 10 ELSE 20)
                ELSE (IF rs2_val < 70 THEN 30 ELSE 40)
    IN  /\ (pc = "expanded" /\ ~falsified) =>
              \E a \in rows_with("VIRTUAL_ADVICE"), m \in rows_with("VIRTUAL_MOVE") :
                 LET advice == At(virtual_trace, a)
                     move   == At(virtual_trace, m)
                 IN  /\ a < m
                     /\ advice.instruction.rd = Some(virtual_register_index(0))
                     /\ advice.register_state.rd_post_val = Some(tree)
                     /\ advice.advice_value = advice.register_state.rd_post_val
                     /\ move.instruction.rs1 = advice.instruction.rd
                     /\ move.register_state.rs1_val = advice.register_state.rd_post_val
                     /\ move.register_state.rd_post_val = move.register_state.rs1_val
                     /\ move.instruction.rd = trace_row.instruction.rd
                     /\ move.advice_value = None
        /\ (pc = "replaying" /\ ~falsified /\ step = 1) =>
              /\ registers[virtual_register_index(0)] = tree
              /\ ~rejected

C21_Witness ==
    /\ pc = "replaying"
    /\ ~falsified
    /\ step = 1
    /\ rs1_val = T1_gbdt - 1
    /\ rs2_val = T2_gbdt
    /\ registers[virtual_register_index(0)] = V2_gbdt
    /\ At(virtual_trace, 1).register_state.rs1_val = Some(V2_gbdt)

(***************************************************************************)
(* C22: frame of the expansion.  Every row virtual_trace returns has the   *)
(* address of the source row and no memory_state, and the only registers   *)
(* the rows write are virtual register 0 and the source row's rd; the      *)
(* replay leaves every other register, rs1 and rs2 included when they      *)
(* differ from rd, with its value before the expansion.                    *)
(***************************************************************************)
C22_Frame ==
    pc \in {"expanded", "replaying", "replayed"} =>
        /\ \A k \in 0..(Len(virtual_trace) - 1) :
              LET row == At(virtual_trace, k)
              IN  /\ row.instruction.address = trace_row.instruction.address
                  /\ row.memory_state = None
                  /\ row.instruction.rd \in
                         {Some(virtual_register_index(0)), trace_row.instruction.rd}
        /\ \A r \in DOMAIN registers :
              r \notin {virtual_register_index(0), dest}
                  => registers[r] = initial_registers(trace_row)[r]

C22_Witness ==
    /\ pc = "replayed"
    /\ ~falsified
    /\ trace_row.instruction.address = MaxAddress
    /\ unwrap(trace_row.instruction.rs1) # dest
    /\ unwrap(trace_row.instruction.rs2) # dest
    /\ rs1_val = T1_gbdt
    /\ rs2_val = T3_gbdt
    /\ registers[unwrap(trace_row.instruction.rs1)] = T1_gbdt
    /\ registers[unwrap(trace_row.instruction.rs2)] = T3_gbdt
    /\ registers[dest] = V4_gbdt

(***************************************************************************)
(* C23: routing on the bit-split sub-fields for any domain size.  For      *)
(* every power-of-two M, also past 2^16 where a sub-field is wider than 8  *)
(* bits, and every idx in [0, M), with b = log2(M)/2, left = (idx >> b)    *)
(* mod 2^b and right = idx mod 2^b, materialize(M)[idx] is V1 if           *)
(* left < T1 and right < T2, V2 if left < T1 and right >= T2, V3 if        *)
(* left >= T1 and right < T3, V4 otherwise, the comparisons made on the    *)
(* full values of left and right.                                          *)
(***************************************************************************)
C23_RoutingOnSubFields ==
    pc = "materialized" =>
        LET b     == log_M \div 2
            left  == (idx \div Pow2(b)) % Pow2(b)
            right == idx % Pow2(b)
        IN  entry = IF left < T1_subtable
                    THEN (IF right < T2_subtable THEN V1_subtable ELSE V2_subtable)
                    ELSE (IF right < T3_subtable THEN V3_subtable ELSE V4_subtable)

====
